---- MODULE Spec2Model ----
(***************************************************************************)
(* Scalar field expression nodes of fdaPDE-core                           *)
(* (fdaPDE/fields/scalar_expressions.h, fdaPDE/utils/assert.h) and the    *)
(* HyperPlane geometry exercised by test/src/vector_space_test.cpp.       *)
(*                                                                         *)
(* Numbers.  A double is modelled exactly: a finite value is a reduced    *)
(* fraction, the IEEE specials are kept (division by zero is not checked  *)
(* by the code), and the result of an elementary function that has no     *)
(* rational value is kept as a term naming the computation.  Rounding and *)
(* the sign of zero are not represented.                                  *)
(***************************************************************************)
EXTENDS Integers, Sequences, FiniteSets, TLC

(***************************************************************************)
(* Bounds of the model.                                                    *)
(***************************************************************************)
\* largest number of nodes of an expression tree
MaxNodes == 3
\* number of rows of the table behind a discretized field
NRows == 2
\* largest run-time base space dimension
MaxDim == 1

\* largest coordinate of the grid points given to a hyperplane
MaxCoord == 1

\* run-time arities given to new nodes and to resize()
Arities == 0 .. MaxDim
\* row indexes passed to forward(): NRows is the first index out of range
Indexes == 0 .. NRows
Rows == 0 .. (NRows - 1)

(***************************************************************************)
(* Exact rational arithmetic.                                              *)
(***************************************************************************)
Abs(i) == IF i < 0 THEN -i ELSE i

RECURSIVE Gcd(_, _)
Gcd(a, b) == IF b = 0 THEN Abs(a) ELSE Gcd(b, a % Abs(b))

\* the fraction n/d (d # 0) in lowest terms with a positive denominator
Fin(n, d) ==
    LET g == Gcd(n, d)
        s == IF d < 0 THEN -1 ELSE 1
    IN  [t |-> "fin", n |-> s * (n \div g), d |-> s * (d \div g)]

Num(i) == [t |-> "fin", n |-> i, d |-> 1]
Zero == Num(0)
One == Num(1)
NaN == [t |-> "nan"]
Inf(s) == [t |-> "inf", s |-> s]
\* the value of a computation that is not a rational number
Term(fn, args) == [t |-> "term", fn |-> fn, args |-> args]

IsFin(x) == x.t = "fin"
IsInf(x) == x.t = "inf"
IsNaN(x) == x.t = "nan"
IsTerm(x) == x.t = "term"
IsZero(x) == IsFin(x) /\ x.n = 0
\* sign of a finite or infinite value, a zero counting as positive
Sign(x) == IF IsInf(x) THEN x.s ELSE IF x.n < 0 THEN -1 ELSE 1

(***************************************************************************)
(* The functors of the binary operators, on doubles.                       *)
(***************************************************************************)
\* std::plus<>
Plus(x, y) ==
    IF IsTerm(x) \/ IsTerm(y) THEN Term("plus", <<x, y>>)
    ELSE IF IsNaN(x) \/ IsNaN(y) THEN NaN
    ELSE IF IsInf(x) /\ IsInf(y) THEN (IF x.s = y.s THEN x ELSE NaN)
    ELSE IF IsInf(x) THEN x
    ELSE IF IsInf(y) THEN y
    ELSE Fin(x.n * y.d + y.n * x.d, x.d * y.d)

\* std::minus<>
Minus(x, y) ==
    IF IsTerm(x) \/ IsTerm(y) THEN Term("minus", <<x, y>>)
    ELSE IF IsNaN(x) \/ IsNaN(y) THEN NaN
    ELSE IF IsInf(x) /\ IsInf(y) THEN (IF x.s = y.s THEN NaN ELSE x)
    ELSE IF IsInf(x) THEN x
    ELSE IF IsInf(y) THEN Inf(-y.s)
    ELSE Fin(x.n * y.d - y.n * x.d, x.d * y.d)

\* std::multiplies<>
Multiplies(x, y) ==
    IF IsTerm(x) \/ IsTerm(y) THEN Term("multiplies", <<x, y>>)
    ELSE IF IsNaN(x) \/ IsNaN(y) THEN NaN
    ELSE IF IsInf(x) \/ IsInf(y)
         THEN (IF IsZero(x) \/ IsZero(y) THEN NaN ELSE Inf(Sign(x) * Sign(y)))
    ELSE Fin(x.n * y.n, x.d * y.d)

\* std::divides<>: a zero divisor is not checked, the IEEE result is returned
Divides(x, y) ==
    IF IsTerm(x) \/ IsTerm(y) THEN Term("divides", <<x, y>>)
    ELSE IF IsNaN(x) \/ IsNaN(y) THEN NaN
    ELSE IF IsInf(x) THEN (IF IsInf(y) THEN NaN ELSE Inf(Sign(x) * Sign(y)))
    ELSE IF IsInf(y) THEN Zero
    ELSE IF IsZero(y) THEN (IF IsZero(x) THEN NaN ELSE Inf(Sign(x)))
    ELSE Fin(x.n * y.d, x.d * y.n)

\* the negation of a double, as in -op_(p)
Negate(x) ==
    IF IsTerm(x) THEN Term("negate", <<x>>)
    ELSE IF IsNaN(x) THEN NaN
    ELSE IF IsInf(x) THEN Inf(-x.s)
    ELSE Fin(-x.n, x.d)

\* the functor objects a ScalarBinOp can hold
Functors == {"plus", "minus", "multiplies", "divides"}

\* f_(x, y) for a stored functor f_
ApplyBinary(f, x, y) ==
    CASE f = "plus" -> Plus(x, y)
      [] f = "minus" -> Minus(x, y)
      [] f = "multiplies" -> Multiplies(x, y)
      [] f = "divides" -> Divides(x, y)

(***************************************************************************)
(* The elementary functions wrapped by the unary operators.                *)
(***************************************************************************)
UnaryFunctions == {"sin", "cos", "tan", "exp", "log"}

\* std::sin, std::cos, std::tan, std::exp, std::log
ApplyUnary(fn, x) ==
    IF IsTerm(x) THEN Term(fn, <<x>>)
    ELSE IF IsNaN(x) THEN NaN
    ELSE IF fn \in {"sin", "tan"}
         THEN (IF IsInf(x) THEN NaN ELSE IF IsZero(x) THEN Zero ELSE Term(fn, <<x>>))
    ELSE IF fn = "cos"
         THEN (IF IsInf(x) THEN NaN ELSE IF IsZero(x) THEN One ELSE Term(fn, <<x>>))
    ELSE IF fn = "exp"
         THEN (IF IsInf(x) THEN (IF x.s > 0 THEN x ELSE Zero)
               ELSE IF IsZero(x) THEN One ELSE Term(fn, <<x>>))
    ELSE \* log
         IF IsInf(x) THEN (IF x.s > 0 THEN x ELSE NaN)
         ELSE IF IsZero(x) THEN Inf(-1)
         ELSE IF x.n < 0 THEN NaN
         ELSE IF x = One THEN Zero
         ELSE Term(fn, <<x>>)

(***************************************************************************)
(* State.                                                                  *)
(***************************************************************************)
VARIABLES
    N,      \* the template parameter N of the expression: Dynamic or a fixed size
    e,      \* the expression object the caller holds (operands are nested by copy)
    data,   \* column 0 of the matrix the discretized fields point to (caller owned)
    hist,   \* while e is a discretized field: <<>>, or <<its last forward call>>
    out,    \* the last call made on the expression and what it returned
    plane,  \* the HyperPlane object the caller holds, if any
    pout    \* the last call made on the hyperplane and what it returned

vars == <<N, e, data, hist, out, plane, pout>>
exprVars == <<N, e, data, hist, out>>
planeVars == <<plane, pout>>

\* Eigen's marker of a size known at run time only
Dynamic == -1
\* the fixed sizes N the expressions are instantiated with
StaticSizes == {1}
\* values the caller passes as constants
ScalarSamples == {Num(2), Num(-3)}
\* values the caller stores in the table
TableValues == {Num(1), Fin(1, 2)}
\* what a read outside the table may find
StrayValues == {Num(0), Num(5)}

\* a thrown std::runtime_error, from fdapde_assert
Threw == [kind |-> "threw", what |-> "std::runtime_error"]

\* evaluation points: two of each dimension (these nodes read only the number
\* of rows of a point)
Points == {[k \in 1 .. n |-> c] : n \in 0 .. MaxDim, c \in {0, 1}}

(***************************************************************************)
(* Nodes.                                                                  *)
(***************************************************************************)
\* ScalarExpr::inner_size()
InnerSize(node) == IF N = Dynamic THEN node.dyn ELSE N

\* Scalar(double value, int n)
Scalar(value, n) == [kind |-> "Scalar", dyn |-> n, value |-> value]

\* a field whose value_ has no initializer and holds what the memory held
FieldWithoutInitializer == [kind |-> "Field", dyn |-> 0, value |-> Num(5)]

\* DiscretizedScalarField(MatrixType& data): value_ = 0, dynamic_inner_size_ = 0
DiscretizedScalarField == [kind |-> "Field", dyn |-> 0, value |-> Zero]

\* a constructor without the comparison of the run-time arities
ScalarBinOpUnchecked(op1, op2, f) ==
    [kind |-> "BinOp", dyn |-> op1.dyn, op1 |-> op1, op2 |-> op2, f |-> f]

\* ScalarBinOp(op1, op2, f): the operands are copied, then the arities compared
ScalarBinOp(op1, op2, f) ==
    IF N = Dynamic /\ InnerSize(op1) # InnerSize(op2)
    THEN Threw
    ELSE [kind |-> "BinOp", dyn |-> InnerSize(op1), op1 |-> op1, op2 |-> op2, f |-> f]

\* ScalarUnOp(op, f, n)
ScalarUnOp(op, f, n) == [kind |-> "UnOp", dyn |-> n, op |-> op, f |-> f]

\* ScalarNegationOp(op, n)
ScalarNegationOp(op, n) == [kind |-> "Neg", dyn |-> n, op |-> op]

RECURSIVE Size(_)
\* number of nodes of a tree
Size(node) ==
    CASE node.kind = "BinOp" -> 1 + Size(node.op1) + Size(node.op2)
      [] node.kind \in {"UnOp", "Neg"} -> 1 + Size(node.op)
      [] OTHER -> 1

\* the leaves a caller can construct
Leaves ==
    {Scalar(v, n) : v \in ScalarSamples, n \in (IF N = Dynamic THEN Arities ELSE {N})}
    \cup {DiscretizedScalarField}

(***************************************************************************)
(* operator(): evaluation at a point.                                      *)
(***************************************************************************)
\* p.rows()
PointRows(p) == Len(p)

RECURSIVE Eval(_, _)
\* E::operator()(p): a double, or Threw
Eval(node, p) ==
    CASE node.kind = "Scalar" -> node.value
      [] node.kind = "Field" -> node.value
      [] node.kind = "BinOp" ->
            IF N = Dynamic /\ PointRows(p) # InnerSize(node) THEN Threw
            ELSE LET a == Eval(node.op1, p)
                     b == Eval(node.op2, p)
                 IN  IF a = Threw \/ b = Threw THEN Threw
                     ELSE ApplyBinary(node.f, a, b)
      [] node.kind = "UnOp" ->
            LET a == Eval(node.op, p)
            IN  IF a = Threw THEN Threw ELSE ApplyUnary(node.f, a)
      [] node.kind = "Neg" ->
            LET a == Eval(node.op, p)
            IN  IF a = Threw THEN Threw ELSE Negate(a)

(***************************************************************************)
(* forward(i).                                                             *)
(***************************************************************************)
\* a forward that reads the first row whatever the index
FieldForwardFirstRow(node, i) == {[node EXCEPT !.value = data[0]]}

\* DiscretizedScalarField::forward: value_ = (*data_)(i, 0); outside the table
\* the read is undefined and may find anything
FieldForward(node, i) ==
    IF i \in Rows
    THEN {[node EXCEPT !.value = data[i]]}
    ELSE {[node EXCEPT !.value = v] : v \in StrayValues}

RECURSIVE ForwardSet(_, _)

\* a unary node that forwards to its operand, as the negation node does
UnOpForwardToOperand(node, i) ==
    {[node EXCEPT !.op = a] : a \in ForwardSet(node.op, i)}

\* ScalarUnOp does not redefine forward: ScalarExpr::forward does nothing
UnOpForward(node, i) == {node}

\* E::forward(i): the states the node may be left in
ForwardSet(node, i) ==
    CASE node.kind = "Scalar" -> {node}
      [] node.kind = "Field" -> FieldForward(node, i)
      [] node.kind = "BinOp" ->
            {[node EXCEPT !.op1 = a, !.op2 = b] :
                a \in ForwardSet(node.op1, i), b \in ForwardSet(node.op2, i)}
      [] node.kind = "UnOp" -> UnOpForward(node, i)
      [] node.kind = "Neg" ->
            {[node EXCEPT !.op = a] : a \in ForwardSet(node.op, i)}

RECURSIVE ForwardReads(_)
\* whether forward on this node reads the table
ForwardReads(node) ==
    CASE node.kind = "Field" -> TRUE
      [] node.kind = "BinOp" -> ForwardReads(node.op1) \/ ForwardReads(node.op2)
      [] node.kind = "Neg" -> ForwardReads(node.op)
      [] OTHER -> FALSE

(***************************************************************************)
(* The operator overload layer.                                            *)
(***************************************************************************)
Operators == {"operator+", "operator-", "operator*", "operator/"}

\* DEFINE_SCALAR_BINARY_OPERATOR(OPERATOR, FUNCTOR)
FunctorOf(opr) ==
    CASE opr = "operator+" -> "plus"
      [] opr = "operator-" -> "minus"
      [] opr = "operator*" -> "multiplies"
      [] opr = "operator/" -> "divides"

\* an overload that passes its operands in the wrong order
ExprOpExprSwapped(opr, op1, op2) == ScalarBinOp(op2, op1, FunctorOf(opr))

\* OPERATOR(op1, op2) between two expressions
ExprOpExpr(opr, op1, op2) == ScalarBinOp(op1, op2, FunctorOf(opr))

\* a promotion that leaves the run-time arity of the constant at 0
PromoteWithoutArity(c, op) == Scalar(c, 0)

\* the Scalar<N> a double is promoted to beside the expression op
Promote(c, op) == Scalar(c, InnerSize(op))

\* OPERATOR(op1, double op2)
ExprOpDouble(opr, op1, c) == ScalarBinOp(op1, Promote(c, op1), FunctorOf(opr))

\* OPERATOR(double op1, op2)
DoubleOpExpr(opr, c, op2) == ScalarBinOp(Promote(c, op2), op2, FunctorOf(opr))

\* DEFINE_SCALAR_UNARY_OPERATOR(OPERATOR, FUNCTION)
UnaryOperator(fn, op1) == ScalarUnOp(op1, fn, InnerSize(op1))

\* ScalarExpr::operator-()
UnaryMinus(op) == ScalarNegationOp(op, op.dyn)

(***************************************************************************)
(* HyperPlane.  Its tests compare with surds (1/sqrt(2), 2/sqrt(6)), so    *)
(* the reals of the geometry are kept exact: a real is a finite sum of     *)
(* terms q * sqrt(r), q a non-zero fraction and r a square-free integer,   *)
(* held as the function r :> q; a norm is held by its square.              *)
(***************************************************************************)
\* fractions in lowest terms, common factors taken out before multiplying
QAdd(x, y) ==
    LET g == Gcd(x.d, y.d)
    IN  Fin(x.n * (y.d \div g) + y.n * (x.d \div g), (x.d \div g) * y.d)
QMul(x, y) ==
    LET g == Gcd(x.n, y.d)
        h == Gcd(y.n, x.d)
    IN  Fin((x.n \div g) * (y.n \div h), (x.d \div h) * (y.d \div g))
QNeg(x) == Fin(-x.n, x.d)

\* the real 0, and the real of a fraction
ZeroE == [r \in {} |-> Zero]
Elem(q) == [r \in (IF q.n = 0 THEN {} ELSE {1}) |-> q]
Coef(x, r) == IF r \in DOMAIN x THEN x[r] ELSE Zero
Prune(f) == [r \in {k \in DOMAIN f : f[k].n # 0} |-> f[r]]

EAdd(x, y) == Prune([r \in DOMAIN x \cup DOMAIN y |-> QAdd(Coef(x, r), Coef(y, r))])
ENeg(x) == [r \in DOMAIN x |-> QNeg(x[r])]
ESub(x, y) == EAdd(x, ENeg(y))

\* sqrt(a) * sqrt(b) = g * sqrt(a * b / g^2) for square-free a, b and g = gcd(a, b)
RadOf(a, b) == (a \div Gcd(a, b)) * (b \div Gcd(a, b))

RECURSIVE TermSum(_, _, _)
\* the sum of the products of the terms of x and y named by the pairs in todo
TermSum(x, y, todo) ==
    IF todo = {} THEN Zero
    ELSE LET pr == CHOOSE q \in todo : TRUE
         IN  QAdd(QMul(QMul(x[pr[1]], Num(Gcd(pr[1], pr[2]))), y[pr[2]]),
                  TermSum(x, y, todo \ {pr}))

EMul(x, y) ==
    LET pairs == (DOMAIN x) \X (DOMAIN y)
        rads == {RadOf(pr[1], pr[2]) : pr \in pairs}
    IN  Prune([r \in rads |->
                  TermSum(x, y, {pr \in pairs : RadOf(pr[1], pr[2]) = r})])

RECURSIVE SquarePart(_, _)
\* the largest m with m * m dividing n, n having no prime factor below from
SquarePart(n, from) ==
    IF from * from > n THEN 1
    ELSE IF n % (from * from) = 0 THEN from * SquarePart(n \div (from * from), from)
    ELSE IF n % from = 0 THEN SquarePart(n \div from, from + 1)
    ELSE SquarePart(n, from + 1)

\* sqrt(q) for a fraction q >= 0
SqrtQ(q) ==
    IF q.n = 0 THEN ZeroE
    ELSE LET mn == SquarePart(q.n, 2)
             md == SquarePart(q.d, 2)
             rn == q.n \div (mn * mn)
             rd == q.d \div (md * md)
         IN  [r \in {rn * rd} |-> Fin(mn, md * rd)]

\* vectors of reals
Vec(p) == [j \in 1 .. Len(p) |-> Elem(p[j])]
VAdd(v, w) == [j \in 1 .. Len(v) |-> EAdd(v[j], w[j])]
VSub(v, w) == [j \in 1 .. Len(v) |-> ESub(v[j], w[j])]
VScale(a, v) == [j \in 1 .. Len(v) |-> EMul(a, v[j])]

RECURSIVE DotFrom(_, _, _)
DotFrom(v, w, j) ==
    IF j > Len(v) THEN ZeroE ELSE EAdd(EMul(v[j], w[j]), DotFrom(v, w, j + 1))

\* v.dot(w), v.squaredNorm(), v.norm()
Dot(v, w) == DotFrom(v, w, 1)
SquaredNorm(v) == Dot(v, v)
Norm(v) == [root |-> SquaredNorm(v)]
NormZero == [root |-> ZeroE]

\* v / v.norm() for a vector of fractions that is not 0
Normalized(v) ==
    LET s == SquaredNorm(v)[1]
    IN  VScale(SqrtQ(Fin(s.d, s.n)), v)

RECURSIVE Combination(_, _, _, _)
\* start + sum over i >= from of coords[i] * basis[i]
Combination(start, coords, basis, from) ==
    IF from > Len(basis) THEN start
    ELSE Combination(VAdd(start, VScale(coords[from], basis[from])), coords, basis,
                     from + 1)

\* the coordinates <v, basis[i]> of v along an orthonormal basis
Coordinates(v, basis) == [i \in 1 .. Len(basis) |-> Dot(v, basis[i])]

\* the part of v orthogonal to the vectors of basis
Residual(v, basis) ==
    VSub(v, Combination([j \in 1 .. Len(v) |-> ZeroE], Coordinates(v, basis), basis, 1))

\* a construction from affinely dependent points
Degenerate == [kind |-> "threw", what |-> "degenerate"]
\* no hyperplane constructed yet
NoPlane == [kind |-> "none"]

\* a Gram-Schmidt that normalizes the directions without making them orthogonal
OrthonormalizeNoProjection(dirs, basis) ==
    IF \E i \in 1 .. Len(dirs) : SquaredNorm(dirs[i]) = ZeroE
    THEN [ok |-> FALSE, basis |-> <<>>]
    ELSE [ok |-> TRUE, basis |-> [i \in 1 .. Len(dirs) |-> Normalized(dirs[i])]]

RECURSIVE Orthonormalize(_, _)
\* Gram-Schmidt over the directions left, with the basis found so far; not ok
\* when a direction depends on those before it
Orthonormalize(dirs, basis) ==
    IF dirs = <<>> THEN [ok |-> TRUE, basis |-> basis]
    ELSE LET u == Residual(Head(dirs), basis)
         IN  IF SquaredNorm(u) = ZeroE THEN [ok |-> FALSE, basis |-> <<>>]
             ELSE Orthonormalize(Tail(dirs), Append(basis, Normalized(u)))

\* HyperPlane(a, b), HyperPlane(a, b, c): the first point is the offset, the
\* others give the directions
HyperPlane(points) ==
    LET offset == Vec(points[1])
        dirs == [i \in 1 .. Len(points) - 1 |-> VSub(Vec(points[i + 1]), offset)]
        found == Orthonormalize(dirs, <<>>)
    IN  IF found.ok
        THEN [kind |-> "plane", offset |-> offset, basis |-> found.basis]
        ELSE Degenerate

\* operator()(coords): offset + sum_i coords[i] * basis[i]
PlaneEvaluate(h, coords) == Combination(h.offset, coords, h.basis, 1)

\* a project_onto that does not subtract the offset
ProjectOntoNoOffset(h, x) == Coordinates(x, h.basis)

\* project_onto(x): the coordinates <x - offset, basis[i]>
ProjectOnto(h, x) == Coordinates(VSub(x, h.offset), h.basis)

\* project(x): offset + sum_i <x - offset, basis[i]> * basis[i]
Project(h, x) == Combination(h.offset, Coordinates(VSub(x, h.offset), h.basis), h.basis, 1)

\* distance(x): the norm of x - project(x)
Distance(h, x) == Norm(VSub(x, Project(h, x)))

(***************************************************************************)
(* The calls a caller makes.                                               *)
(***************************************************************************)
Running == out.call # "abort"

\* the object e after a call that returned ret
Held(ret) == IF ret = Threw THEN e ELSE ret
\* a new object has had no forward call
HistAfter(ret) == IF ret = Threw THEN hist ELSE <<>>

\* a op b, where a or b is the held expression and the other a new leaf or e
CallBinary(opr, lhs, rhs) ==
    /\ Running
    /\ e \in {lhs, rhs}
    /\ Size(lhs) + Size(rhs) + 1 <= MaxNodes
    /\ LET ret == ExprOpExpr(opr, lhs, rhs)
       IN  /\ e' = Held(ret)
           /\ hist' = HistAfter(ret)
           /\ out' = [call |-> "binary", opr |-> opr, lhs |-> lhs, rhs |-> rhs,
                      ret |-> ret]
    /\ UNCHANGED <<N, data>>

\* e op c
CallExprOpDouble(opr, c) ==
    /\ Running
    /\ Size(e) + 2 <= MaxNodes
    /\ LET ret == ExprOpDouble(opr, e, c)
       IN  /\ e' = Held(ret)
           /\ hist' = HistAfter(ret)
           /\ out' = [call |-> "expr_double", opr |-> opr, a |-> e, c |-> c,
                      ret |-> ret]
    /\ UNCHANGED <<N, data>>

\* c op e
CallDoubleOpExpr(opr, c) ==
    /\ Running
    /\ Size(e) + 2 <= MaxNodes
    /\ LET ret == DoubleOpExpr(opr, c, e)
       IN  /\ e' = Held(ret)
           /\ hist' = HistAfter(ret)
           /\ out' = [call |-> "double_expr", opr |-> opr, a |-> e, c |-> c,
                      ret |-> ret]
    /\ UNCHANGED <<N, data>>

\* sin(e), cos(e), tan(e), exp(e), log(e)
CallUnary(fn) ==
    /\ Running
    /\ Size(e) + 1 <= MaxNodes
    /\ e' = UnaryOperator(fn, e)
    /\ hist' = <<>>
    /\ out' = [call |-> "unary", fn |-> fn, a |-> e]
    /\ UNCHANGED <<N, data>>

\* -e
CallNegate ==
    /\ Running
    /\ Size(e) + 1 <= MaxNodes
    /\ e' = UnaryMinus(e)
    /\ hist' = <<>>
    /\ out' = [call |-> "negate", a |-> e]
    /\ UNCHANGED <<N, data>>

\* e.resize(n): enabled for Dynamic expressions only
CallResize(n) ==
    /\ Running
    /\ N = Dynamic
    /\ e' = [e EXCEPT !.dyn = n]
    /\ e.dyn # n
    /\ out' = [call |-> "resize"]
    /\ UNCHANGED <<N, data, hist>>

\* e.forward(i)
CallForward(i) ==
    /\ Running
    /\ e' \in ForwardSet(e, i)
    /\ hist' = IF e.kind = "Field"
               THEN <<[i |-> i, seen |-> IF i \in Rows THEN data[i] ELSE NaN]>>
               ELSE hist
    /\ out' = [call |-> "forward", i |-> i, before |-> e]
    /\ UNCHANGED <<N, data>>

\* e.forward(i) with i outside the table, in a build that stops on the bad read
CallForwardAbort(i) ==
    /\ Running
    /\ i \notin Rows
    /\ ForwardReads(e)
    /\ out' = [call |-> "abort", i |-> i]
    /\ UNCHANGED <<N, e, data, hist>>

\* e(p)
CallEvaluate(p) ==
    /\ Running
    /\ N # Dynamic => PointRows(p) = N
    /\ out' = [call |-> "evaluate", p |-> p, ret |-> Eval(e, p)]
    /\ UNCHANGED <<N, e, data, hist>>

\* the caller writes data(r, 0) = v
WriteData(r, v) ==
    /\ Running
    /\ data[r] # v
    /\ data' = [data EXCEPT ![r] = v]
    /\ out' = [call |-> "write"]
    /\ UNCHANGED <<N, e, hist>>

\* the table the caller has filled before building expressions
InitialData == [r \in Rows |-> Fin(r + 1, 2)]

Init ==
    /\ N \in {Dynamic} \cup StaticSizes
    /\ e \in Leaves
    /\ data = InitialData
    /\ hist = <<>>
    /\ out = [call |-> "none"]
    /\ plane = NoPlane
    /\ pout = [call |-> "none"]

Compose ==
    \/ \E opr \in Operators, leaf \in Leaves \cup {e} : CallBinary(opr, e, leaf)
    \/ \E opr \in Operators, leaf \in Leaves : CallBinary(opr, leaf, e)
    \/ \E opr \in Operators, c \in ScalarSamples : CallExprOpDouble(opr, c)
    \/ \E opr \in Operators, c \in ScalarSamples : CallDoubleOpExpr(opr, c)
    \/ \E fn \in UnaryFunctions : CallUnary(fn)
    \/ CallNegate

Resize == \E n \in Arities : CallResize(n)

Forward ==
    \/ \E i \in Indexes : CallForward(i)
    \/ \E i \in Indexes : CallForwardAbort(i)

Evaluate == \E p \in Points : CallEvaluate(p)

Write == \E r \in Rows, v \in TableValues : WriteData(r, v)

\* a caller that composes an expression over a filled table, forwards rows to
\* it and evaluates it
Next == (Compose \/ Forward \/ Evaluate) /\ UNCHANGED planeVars

Spec == Init /\ [][Next]_vars

\* a caller that assembles an expression whose base dimension is known at run
\* time only, before any row is forwarded to it
InitDynamic ==
    /\ N = Dynamic
    /\ data = InitialData
    /\ e \in Leaves
    /\ hist = <<>>
    /\ out = [call |-> "none"]
    /\ plane = NoPlane
    /\ pout = [call |-> "none"]

NextDynamic == (Compose \/ Resize \/ Evaluate) /\ UNCHANGED planeVars

SpecDynamic == InitDynamic /\ [][NextDynamic]_vars

\* a caller that holds one discretized field and keeps writing to its table
InitField ==
    /\ N \in {Dynamic} \cup StaticSizes
    /\ e = DiscretizedScalarField
    /\ data \in [Rows -> TableValues]
    /\ hist = <<>>
    /\ out = [call |-> "none"]
    /\ plane = NoPlane
    /\ pout = [call |-> "none"]

NextField == (Forward \/ Evaluate \/ Write) /\ UNCHANGED planeVars

SpecField == InitField /\ [][NextField]_vars

\* the same caller when nothing writes to the table
NextFieldNoWrite == (Forward \/ Evaluate) /\ UNCHANGED planeVars

SpecFieldNoWrite == InitField /\ [][NextFieldNoWrite]_vars

(***************************************************************************)
(* The calls a caller makes on a hyperplane.                               *)
(***************************************************************************)
P2(a, b) == <<Num(a), Num(b)>>
P3(a, b, c) == <<Num(a), Num(b), Num(c)>>
Grid == 0 .. MaxCoord

\* the points a hyperplane is constructed from: those of the tests, a plane in
\* general position, dependent points, and every pair of grid points of the
\* plane.  The plane of l2_distance_from_2d_space, through (1, 2, 10) and
\* (7, 7, 5), is replaced by the one through (1, 2, 2) and (2, 1, 0): the
\* squares of its coordinates, with denominators 826770, do not fit 32 bits.
Generators ==
    { <<P2(0, 0), P2(1, 1)>>,
      <<P3(0, 0, 0), P3(1, 1, 0), P3(0, 1, 1)>>,
      <<P3(0, 0, 0), P3(1, 2, 2), P3(2, 1, 0)>>,
      <<P3(0, 0, 5), P3(1, 1, 5), P3(0, 1, 6)>>,
      <<P3(0, 0, 0), P3(1, 1, 0), P3(2, 2, 0)>>,
      <<P2(1, 2), P2(3, 1)>> }
    \cup {<<P2(a, b), P2(c, d)>> : a \in Grid, b \in Grid, c \in Grid, d \in Grid}

\* the ambient points of dimension m a caller asks about: those of the tests
\* and the grid points
AmbientPoints(m) ==
    IF m = 2
    THEN {<<Num(4), Fin(7, 2)>>, P2(7, 9)} \cup {P2(a, b) : a \in Grid, b \in Grid}
    ELSE {<<Fin(71, 10), Fin(17, 5), Num(2)>>, P3(3, 9, 2)}
         \cup {P3(a, b, c) : a \in Grid, b \in Grid, c \in Grid}

\* the local coordinates of dimension k a caller asks about
LocalPoints(k) ==
    IF k = 1
    THEN {<<Num(1)>>, <<Fin(-3, 2)>>} \cup {<<Num(a)>> : a \in Grid}
    ELSE {P2(1, 0), P2(1, 2), <<Fin(-3, 2), Num(2)>>}
         \cup {P2(a, b) : a \in Grid, b \in Grid}

Constructed == plane.kind = "plane"
AmbientDim == Len(plane.offset)
LocalDim == Len(plane.basis)

\* HyperPlane<K, M> vs(points): the constructor runs once on the object vs, and
\* again if it threw
CallConstruct(points) ==
    /\ plane = NoPlane
    /\ LET ret == HyperPlane(points)
       IN  /\ plane' = IF ret = Degenerate THEN plane ELSE ret
           /\ pout' = [call |-> "construct", points |-> points, ret |-> ret]
    /\ UNCHANGED exprVars

\* vs.project(x), x a point of the caller
CallProject(x) ==
    /\ Constructed
    /\ pout' = [call |-> "project", x |-> x, ret |-> Project(plane, x)]
    /\ UNCHANGED <<exprVars, plane>>

\* vs.project_onto(x), x a point of the caller
CallProjectOnto(x) ==
    /\ Constructed
    /\ pout' = [call |-> "project_onto", x |-> x, ret |-> ProjectOnto(plane, x)]
    /\ UNCHANGED <<exprVars, plane>>

\* vs(coords), coords given by the caller
CallPlaneEvaluate(coords) ==
    /\ Constructed
    /\ pout' = [call |-> "evaluate", from |-> "caller", x |-> coords,
                ret |-> PlaneEvaluate(plane, coords)]
    /\ UNCHANGED <<exprVars, plane>>

\* vs(vs.project_onto(x)): the coordinates just returned are evaluated
CallPlaneEvaluateReturned ==
    /\ Constructed
    /\ pout.call = "project_onto"
    /\ pout' = [call |-> "evaluate", from |-> "project_onto", x |-> pout.ret,
                of |-> pout.x, ret |-> PlaneEvaluate(plane, pout.ret)]
    /\ UNCHANGED <<exprVars, plane>>

\* vs.distance(x), x a point of the caller
CallDistance(x) ==
    /\ Constructed
    /\ pout' = [call |-> "distance", from |-> "caller", x |-> x,
                ret |-> Distance(plane, x)]
    /\ UNCHANGED <<exprVars, plane>>

\* vs.distance(vs.project(x)), vs.distance(vs(coords)): the point just returned
CallDistanceReturned ==
    /\ Constructed
    /\ pout.call \in {"project", "evaluate"}
    /\ pout' = [call |-> "distance", from |-> pout.call, x |-> pout.ret,
                of |-> pout.x, ret |-> Distance(plane, pout.ret)]
    /\ UNCHANGED <<exprVars, plane>>

\* a caller that constructs hyperplanes and queries them
InitPlane ==
    /\ N = Dynamic
    /\ e = DiscretizedScalarField
    /\ data = InitialData
    /\ hist = <<>>
    /\ out = [call |-> "none"]
    /\ plane = NoPlane
    /\ pout = [call |-> "none"]

NextPlane ==
    \/ \E points \in Generators : CallConstruct(points)
    \/ Constructed /\ \E x \in AmbientPoints(AmbientDim) : CallProject(Vec(x))
    \/ Constructed /\ \E x \in AmbientPoints(AmbientDim) : CallProjectOnto(Vec(x))
    \/ Constructed /\ \E c \in LocalPoints(LocalDim) : CallPlaneEvaluate(Vec(c))
    \/ CallPlaneEvaluateReturned
    \/ Constructed /\ \E x \in AmbientPoints(AmbientDim) : CallDistance(Vec(x))
    \/ CallDistanceReturned

SpecPlane == InitPlane /\ [][NextPlane]_vars

(***************************************************************************)
(* Properties.                                                             *)
(***************************************************************************)
\* what the arithmetic operator named opr computes on two doubles
OperatorResult(opr, x, y) ==
    CASE opr = "operator+" -> Plus(x, y)
      [] opr = "operator-" -> Minus(x, y)
      [] opr = "operator*" -> Multiplies(x, y)
      [] opr = "operator/" -> Divides(x, y)

\* the points a node of the current N with inner size n accepts
PointsOfArity(n) == {p \in Points : PointRows(p) = (IF N = Dynamic THEN n ELSE N)}

RECURSIVE FieldValues(_)
\* the current values of all the discretized leaves of a tree
FieldValues(node) ==
    CASE node.kind = "Field" -> {node.value}
      [] node.kind = "BinOp" -> FieldValues(node.op1) \cup FieldValues(node.op2)
      [] node.kind \in {"UnOp", "Neg"} -> FieldValues(node.op)
      [] OTHER -> {}

RECURSIVE OpenFieldValues(_)
\* the current values of the discretized leaves with no generic unary node above
OpenFieldValues(node) ==
    CASE node.kind = "Field" -> {node.value}
      [] node.kind = "BinOp" -> OpenFieldValues(node.op1) \cup OpenFieldValues(node.op2)
      [] node.kind = "Neg" -> OpenFieldValues(node.op)
      [] OTHER -> {}

\* C1: the node built by a OP b, for a and b of equal arity, evaluates at every
\* point p of that arity at which a and b evaluate to OP applied to a(p) and
\* b(p), in this order, for OP one of + - * /
C1_BinaryEvaluates ==
    (out.call = "binary" /\ out.ret # Threw) =>
        \A p \in PointsOfArity(InnerSize(out.lhs)) :
            (Eval(out.lhs, p) # Threw /\ Eval(out.rhs, p) # Threw) =>
                Eval(out.ret, p) =
                    OperatorResult(out.opr, Eval(out.lhs, p), Eval(out.rhs, p))

\* a quotient of two different finite values has been built and evaluates
C1_Witness ==
    /\ out.call = "binary" /\ out.ret # Threw /\ out.opr = "operator/"
    /\ \E p \in PointsOfArity(InnerSize(out.lhs)) :
          /\ Eval(out.lhs, p) # Threw /\ Eval(out.rhs, p) # Threw
          /\ IsFin(Eval(out.lhs, p)) /\ IsFin(Eval(out.rhs, p))
          /\ ~IsZero(Eval(out.lhs, p)) /\ ~IsZero(Eval(out.rhs, p))
          /\ Eval(out.lhs, p) # Eval(out.rhs, p)
          /\ out.rhs.kind = "Field"

\* C2: forward(i) on the root, i a row of the table, leaves every discretized
\* leaf of the tree at table(i, 0), and changes nothing in a tree without
\* discretized leaves
C2_ForwardReachesEveryLeaf ==
    (out.call = "forward" /\ out.i \in Rows) =>
        /\ FieldValues(e) \subseteq {data[out.i]}
        /\ FieldValues(out.before) = {} => e = out.before

C3_EvaluateReturnsRow ==
    (out.call = "evaluate" /\ e.kind = "Field" /\ hist # <<>>) =>
        (hist[1].i \in Rows =>
            /\ out.ret = data[hist[1].i]
            /\ e.value = data[hist[1].i]
            /\ \A q \in PointsOfArity(InnerSize(e)) : Eval(e, q) = out.ret)

\* the second row, which differs from the first, was forwarded and evaluated
C3_Witness ==
    /\ out.call = "evaluate" /\ e.kind = "Field" /\ hist # <<>>
    /\ hist[1].i = 1 /\ data[0] # data[1] /\ out.ret = data[1]

\* C10: an evaluation of a discretized field returns what table(i, 0) held at
\* the most recent forward(i), whatever was written to the table since, and
\* returns 0, not an error, before the first forward
C10_EvaluateReturnsSnapshot ==
    (out.call = "evaluate" /\ e.kind = "Field") =>
        /\ hist = <<>> => out.ret = Zero
        /\ (hist # <<>> /\ hist[1].i \in Rows) => out.ret = hist[1].seen

\* the row was overwritten after the forward and before the evaluation
C10_Witness ==
    /\ out.call = "evaluate" /\ e.kind = "Field" /\ hist # <<>>
    /\ hist[1].i \in Rows
    /\ data[hist[1].i] # hist[1].seen
    /\ out.ret = hist[1].seen

\* C4: under dynamic arity, a binary node built from operands of different
\* run-time arities throws and no node is returned; from operands of equal
\* arities a node is returned whose inner_size() is that arity
C4_ConstructionChecksArity ==
    (N = Dynamic /\ out.call = "binary") =>
        IF InnerSize(out.lhs) # InnerSize(out.rhs)
        THEN out.ret = Threw /\ e \in {out.lhs, out.rhs}
        ELSE /\ out.ret # Threw
             /\ out.ret.kind = "BinOp"
             /\ e = out.ret
             /\ InnerSize(out.ret) = InnerSize(out.lhs)

\* a construction from operands of different arities has thrown
C4_Witness ==
    /\ N = Dynamic /\ out.call = "binary"
    /\ InnerSize(out.lhs) # InnerSize(out.rhs)
    /\ out.ret = Threw

\* C5: a dynamic-arity node of any type, evaluated at a point whose number of
\* rows differs from its inner_size(), throws
C5_EvaluationChecksArity ==
    (N = Dynamic /\ out.call = "evaluate" /\ PointRows(out.p) # InnerSize(e)) =>
        out.ret = Threw

\* C6: a OP c and c OP a promote c to a Scalar of inner size a.inner_size(), the
\* construction does not throw, and the node evaluates at the points of that
\* arity to a(p) OP c, respectively c OP a(p)
C6_DoublePromoted ==
    /\ out.call = "expr_double" =>
          /\ out.ret # Threw
          /\ out.ret.op1 = out.a
          /\ out.ret.op2 = Scalar(out.c, InnerSize(out.a))
          /\ InnerSize(out.ret.op2) = InnerSize(out.a)
          /\ \A p \in PointsOfArity(InnerSize(out.a)) :
                Eval(out.ret, p) =
                    IF Eval(out.a, p) = Threw THEN Threw
                    ELSE OperatorResult(out.opr, Eval(out.a, p), out.c)
    /\ out.call = "double_expr" =>
          /\ out.ret # Threw
          /\ out.ret.op2 = out.a
          /\ out.ret.op1 = Scalar(out.c, InnerSize(out.a))
          /\ InnerSize(out.ret.op1) = InnerSize(out.a)
          /\ \A p \in PointsOfArity(InnerSize(out.a)) :
                Eval(out.ret, p) =
                    IF Eval(out.a, p) = Threw THEN Threw
                    ELSE OperatorResult(out.opr, out.c, Eval(out.a, p))

\* c - a was built for an a of arity 1 and evaluates to a finite value that
\* a - c does not have
C6_Witness ==
    /\ out.call = "double_expr" /\ out.opr = "operator-" /\ out.ret # Threw
    /\ InnerSize(out.a) = 1
    /\ \E p \in PointsOfArity(1) :
          /\ Eval(out.a, p) # Threw
          /\ IsFin(Eval(out.ret, p))
          /\ Eval(out.ret, p) # Minus(Eval(out.a, p), out.c)

\* C7: the distance from the hyperplane of a point returned by project, or by
\* the evaluation of local coordinates, is 0
C7_DistanceOfProjectionIsZero ==
    (pout.call = "distance" /\ pout.from \in {"project", "evaluate"}) =>
        pout.ret = NormZero

\* a point off an affine plane of dimension 2 was projected and the distance of
\* its projection taken
C7_Witness ==
    /\ pout.call = "distance" /\ pout.from = "project"
    /\ LocalDim = 2
    /\ plane.offset # Vec(P3(0, 0, 0))
    /\ Distance(plane, pout.of) # NormZero
    /\ pout.ret = NormZero

\* C8: evaluating the local coordinates project_onto(x) gives project(x), the
\* orthogonal projection of x, also when the offset is not the origin
C8_EvaluateOfProjectOnto ==
    (pout.call = "evaluate" /\ pout.from = "project_onto") =>
        /\ pout.ret = Project(plane, pout.of)
        /\ \A i \in 1 .. LocalDim :
              Dot(VSub(pout.of, pout.ret), plane.basis[i]) = ZeroE

\* the coordinates of a point off a plane whose offset is not the origin were
\* evaluated
C8_Witness ==
    /\ pout.call = "evaluate" /\ pout.from = "project_onto"
    /\ LocalDim = 2
    /\ plane.offset # Vec(P3(0, 0, 0))
    /\ pout.ret # pout.of
    /\ pout.ret = Project(plane, pout.of)

\* the values the tests of the hyperplane expect, where they are fractions
TestedValues ==
    /\ Project(HyperPlane(<<P2(0, 0), P2(1, 1)>>), Vec(<<Num(4), Fin(7, 2)>>))
         = Vec(<<Fin(15, 4), Fin(15, 4)>>)
    /\ ProjectOnto(HyperPlane(<<P2(0, 0), P2(1, 1)>>), Vec(<<Num(4), Fin(7, 2)>>))
         = <<[r \in {2} |-> Fin(15, 4)]>>
    /\ Project(HyperPlane(<<P3(0, 0, 0), P3(1, 1, 0), P3(0, 1, 1)>>),
               Vec(<<Fin(71, 10), Fin(17, 5), Num(2)>>))
         = Vec(<<Fin(26, 5), Fin(53, 10), Fin(1, 10)>>)
    /\ ProjectOnto(HyperPlane(<<P3(0, 0, 0), P3(1, 1, 0), P3(0, 1, 1)>>),
                   Vec(<<Fin(71, 10), Fin(17, 5), Num(2)>>))
         = <<[r \in {2} |-> Fin(21, 4)], [r \in {6} |-> Fin(1, 20)]>>
    /\ Project(HyperPlane(<<P3(0, 0, 5), P3(1, 1, 5), P3(0, 1, 6)>>),
               Vec(<<Fin(71, 10), Fin(17, 5), Num(2)>>))
         = Vec(<<Fin(103, 15), Fin(109, 30), Fin(53, 30)>>)

====
